---------------------------- MODULE Spec2Model ----------------------------
(***************************************************************************)
(* Model of the two operator-driven Azure diagnostic scripts               *)
(*   src/azure_service_health_checker.py  (variant "web")                  *)
(*   src/clpe_ncrpes_monitor.py           (variant "ncrpes")               *)
(* Text is modelled by TLA+ strings handled character by character, so     *)
(* that strip/lower/upper/int/split/json.loads are computed, not assumed.  *)
(***************************************************************************)
EXTENDS Integers, Sequences, FiniteSets, TLC

VARIABLES
    variant,      \* which script runs: "web" or "ncrpes"
    hpc,          \* health-check call: "Building", "Submitted", "returned", "raised"
    hvm,          \* the vm_info the health-check call is made for
    response,     \* what begin_run_command(...).result() did
    result,       \* what the health-check call returned (or the fault it raised)
    enumeration,  \* the VMs list_all() has yielded so far, in order
    lookups,      \* per yielded VM: what instance_view did, or NotCalled
    vms,          \* the list discovery is building
    dpc,          \* discovery: "listing", "returned", "raised"
    discovered,   \* what discovery returned, and how the enumeration ended
    svms,         \* the list the selection prompt was called with
    spc,          \* selection: "called", "index_prompt", "confirm_prompt", "returned", "raised"
    reprompted,   \* whether the index prompt has been shown again after an entry
    choice,       \* the operator's last entry at the index prompt
    answer,       \* the operator's entry at the 'Continue anyway?' prompt
    selected,     \* the VM awaiting confirmation, then what the prompt returned
    rpc,          \* where main / the run method is (see each specification)
    rindex,       \* position in selection['vms'] of the VM the loop is at
    requests,     \* the remote execution requests issued so far, in order
    reports,      \* per request: how display_ncrpes_results ended
    exit_status,  \* the process exit status once main has ended
    services,     \* the list of service names being built (services, line 314)
    entered,      \* what the operator typed at 'Service name: ', in order
    final_confirm, \* confirm: the entry at the last confirmation prompt, stripped and lower-cased
    raising,      \* the exception on its way out of the run method to main
    printed       \* the error lines main has printed, in order

healthVars == <<hpc, hvm, response, result>>
discVars == <<enumeration, lookups, vms, dpc, discovered>>
selVars == <<svms, spc, reprompted, choice, answer, selected>>
runVars == <<rpc, rindex, requests, reports, exit_status, services, entered, final_confirm,
            raising, printed>>
vars == <<variant, healthVars, discVars, selVars, runVars>>

Variants == {"web", "ncrpes"}

None == "<None>"

(***************************************************************************)
(* Bounds of the model.                                                    *)
(***************************************************************************)
MaxMsgLen == 3      \* longest remote output message, in characters
MaxValues == 2      \* most entries in run_command_result.value
MaxEnum == 2        \* most VMs list_all() yields
MaxVms == 2         \* most VMs in the list handed to the selection prompt
MaxInputLen == 2    \* longest free operator entry, in characters

(***************************************************************************)
(* Text primitives (Python str methods).                                   *)
(***************************************************************************)
CharAt(s, i) == SubSeq(s, i, i)

UpperLetters == "ABCDEFGHIJKLMNOPQRSTUVWXYZ"
LowerLetters == "abcdefghijklmnopqrstuvwxyz"

LowerOf == [c \in {CharAt(UpperLetters, i) : i \in 1..26} |->
                CharAt(LowerLetters, CHOOSE i \in 1..26 : CharAt(UpperLetters, i) = c)]
UpperOf == [c \in {CharAt(LowerLetters, i) : i \in 1..26} |->
                CharAt(UpperLetters, CHOOSE i \in 1..26 : CharAt(LowerLetters, i) = c)]

LowerChar(c) == IF c \in DOMAIN LowerOf THEN LowerOf[c] ELSE c

UpperChar(c) == IF c \in DOMAIN UpperOf THEN UpperOf[c] ELSE c

RECURSIVE Lower(_)
Lower(s) == IF s = "" THEN "" ELSE LowerChar(CharAt(s, 1)) \o Lower(SubSeq(s, 2, Len(s)))

RECURSIVE Upper(_)
Upper(s) == IF s = "" THEN "" ELSE UpperChar(CharAt(s, 1)) \o Upper(SubSeq(s, 2, Len(s)))

IsSpace(c) == c = " "

RECURSIVE LStrip(_)
LStrip(s) == IF s # "" /\ IsSpace(CharAt(s, 1)) THEN LStrip(SubSeq(s, 2, Len(s))) ELSE s

RECURSIVE RStrip(_)
RStrip(s) ==
    IF s # "" /\ IsSpace(CharAt(s, Len(s))) THEN RStrip(SubSeq(s, 1, Len(s) - 1)) ELSE s

Strip(s) == RStrip(LStrip(s))

StartsWith(s, p) == Len(s) >= Len(p) /\ SubSeq(s, 1, Len(p)) = p

Contains(s, p) == \E i \in 1..(Len(s) - Len(p) + 1) : SubSeq(s, i, i + Len(p) - 1) = p

\* s.split(sep) for a one-character sep: the fields, in order.
\* (One step per field: the text up to the next sep, then the rest.)
RECURSIVE SplitFrom(_, _, _)
SplitFrom(s, sep, i) ==
    LET seps == {j \in i..Len(s) : CharAt(s, j) = sep}
    IN  IF seps = {} THEN <<SubSeq(s, i, Len(s))>>
        ELSE LET next == CHOOSE j \in seps : \A k \in seps : j <= k
             IN  <<SubSeq(s, i, next - 1)>> \o SplitFrom(s, sep, next + 1)

Split(s, sep) == SplitFrom(s, sep, 1)

\* All texts over alphabet A of length at most n.
RECURSIVE TextsUpTo(_, _)
TextsUpTo(A, n) ==
    IF n = 0 THEN {""}
    ELSE LET shorter == TextsUpTo(A, n - 1)
         IN  shorter \cup {t \o c : t \in shorter, c \in A}

(***************************************************************************)
(* Python exceptions: a class and a message; the classes an except clause  *)
(* catches.                                                                *)
(***************************************************************************)
Exc(cls, msg) == [cls |-> cls, msg |-> msg]

\* The classes a handler for `handler` catches.
Catches(handler, cls) ==
    CASE handler = "AzureError" -> cls = "AzureError"
      [] handler = "ValueError" -> cls \in {"ValueError", "JSONDecodeError"}
      [] handler = "JSONDecodeError" -> cls = "JSONDecodeError"
      [] handler = "KeyboardInterrupt" -> cls = "KeyboardInterrupt"
      [] handler = "Exception" -> cls # "KeyboardInterrupt"
      [] OTHER -> FALSE

Returned(v) == [kind |-> "return", value |-> v]
Raised(e) == [kind |-> "raise", exc |-> e]

(***************************************************************************)
(* json.loads on the characters a remote message is drawn from: the        *)
(* number 0, the empty object, arrays, and white space.                    *)
(***************************************************************************)
JsonChars == {"[", "]", "{", "}", ",", "0", " "}

JNum == [kind |-> "int", items |-> <<>>]
JObj == [kind |-> "dict", items |-> <<>>]
JList(xs) == [kind |-> "list", items |-> xs]

RECURSIVE SkipWs(_, _)
SkipWs(s, i) == IF i <= Len(s) /\ IsSpace(CharAt(s, i)) THEN SkipWs(s, i + 1) ELSE i

ParseFail == [ok |-> FALSE, next |-> 0, val |-> None]
ParseOk(v, n) == [ok |-> TRUE, next |-> n, val |-> v]

RECURSIVE ParseValue(_, _)
RECURSIVE ParseItems(_, _, _)

\* One JSON value starting at position i (white space already skipped).
ParseValue(s, i) ==
    IF i > Len(s) THEN ParseFail
    ELSE IF CharAt(s, i) = "0" THEN ParseOk(JNum, i + 1)
    ELSE IF CharAt(s, i) = "{" THEN
        LET j == SkipWs(s, i + 1)
        IN  IF j <= Len(s) /\ CharAt(s, j) = "}" THEN ParseOk(JObj, j + 1) ELSE ParseFail
    ELSE IF CharAt(s, i) = "[" THEN
        LET j == SkipWs(s, i + 1)
        IN  IF j <= Len(s) /\ CharAt(s, j) = "]" THEN ParseOk(JList(<<>>), j + 1)
            ELSE ParseItems(s, j, <<>>)
    ELSE ParseFail

\* The items of an array after "[", up to and including its "]".
ParseItems(s, i, acc) ==
    LET r == ParseValue(s, i)
    IN  IF ~r.ok THEN ParseFail
        ELSE LET j == SkipWs(s, r.next)
             IN  IF j > Len(s) THEN ParseFail
                 ELSE IF CharAt(s, j) = "]" THEN ParseOk(JList(Append(acc, r.val)), j + 1)
                 ELSE IF CharAt(s, j) = "," THEN
                     ParseItems(s, SkipWs(s, j + 1), Append(acc, r.val))
                 ELSE ParseFail

\* json.loads(output): the value, or the fault it raises.
json_loads(output) ==
    IF output = None THEN Raised(Exc("TypeError", "the JSON object must be str"))
    ELSE LET r == ParseValue(output, SkipWs(output, 1))
         IN  IF r.ok /\ SkipWs(output, r.next) > Len(output)
             THEN Returned(r.val)
             ELSE Raised(Exc("JSONDecodeError", "Expecting value"))


(***************************************************************************)
(* The selection prompt: select_vm ("web") and select_clpe_vm ("ncrpes").  *)
(***************************************************************************)
PowerStates == {"running", "deallocated", "unknown"}

VmInfo(name, rg, ps) ==
    [name |-> name, resource_group |-> rg, power_state |-> ps, tags |-> <<>>]

NameAt == <<"web-vm1", "vm2", "WEBvm3", "vm4">>
RgAt == <<"rgA", "rgB", "rgA", "rgB">>

\* The lists discovery can hand over: at most MaxVms vm_info, any power states.
VmLists ==
    UNION {{[i \in 1..n |-> VmInfo(NameAt[i], RgAt[i], ps[i])] : ps \in [1..n -> PowerStates]} :
            n \in 0..MaxVms}

\* What the operator can type at an input(): a list of entries (tokens in
\* both cases, numerals, noise), and every text of at most MaxInputLen
\* characters over a digit, a sign and the blank.
InputChars == {"1", "-", " "}
InputWords ==
    {"q", "Q", " quit", "exit", "EXIT", "all", "ALL ", "y", "Y", " y ", "n", "yes", "abc",
     "1.5", "0", "2", "3", "4", "10", "+2", " 2 ", "-0", "00"}
OperatorInputs == InputWords \cup TextsUpTo(InputChars, MaxInputLen)

\* What the operator can type at the yes/no prompt that ends a run's
\* preparation.
ConfirmEntries == {"y", "Y", " y ", "n", "N", "", "yes", "1"}

NoInput == "<no input>"
Interrupt == "<KeyboardInterrupt>"

Digits == "0123456789"
DigitOf == [c \in {CharAt(Digits, i) : i \in 1..10} |->
                (CHOOSE i \in 1..10 : CharAt(Digits, i) = c) - 1]
IsDigit(c) == c \in DOMAIN DigitOf
DigitValue(c) == DigitOf[c]

RECURSIVE DigitsValue(_, _)
DigitsValue(s, acc) ==
    IF s = "" THEN acc
    ELSE DigitsValue(SubSeq(s, 2, Len(s)), 10 * acc + DigitValue(CharAt(s, 1)))

\* int(text): surrounding white space, an optional sign, one or more digits.
py_int(text) ==
    LET t == Strip(text)
        signed == t # "" /\ CharAt(t, 1) \in {"+", "-"}
        body == IF signed THEN SubSeq(t, 2, Len(t)) ELSE t
    IN  IF body # "" /\ \A i \in 1..Len(body) : IsDigit(CharAt(body, i))
        THEN Returned(IF signed /\ CharAt(t, 1) = "-"
                      THEN 0 - DigitsValue(body, 0) ELSE DigitsValue(body, 0))
        ELSE Raised(Exc("ValueError", "invalid literal for int()"))

SelNone == [kind |-> "none"]
SelVm(vm) == [kind |-> "vm", vm |-> vm]
SelAll(list) == [kind |-> "all", vms |-> list]
SelPending(vm) == [kind |-> "pending", vm |-> vm]

NotReturned == [kind |-> "not_returned"]

Reprompt == [pc |-> "index_prompt", selected |-> NotReturned]
Return(v) == [pc |-> "returned", selected |-> v]
Propagate(e) == [pc |-> "raised", selected |-> [kind |-> "fault", cls |-> e.cls]]

\* except ValueError: print and go round the while loop again.
OnValueErrorReturnNone(e) ==
    IF Catches("ValueError", e.cls) THEN Return(SelNone) ELSE Propagate(e)

OnValueError(e) == IF Catches("ValueError", e.cls) THEN Reprompt ELSE Propagate(e)

\* except KeyboardInterrupt: print and return None; `prompt` is the input()
\* that was interrupted.  Both are inside the try.
OnInterruptIndexPromptOnly(prompt) ==
    IF prompt = "index_prompt" THEN Return(SelNone)
    ELSE Propagate(Exc("KeyboardInterrupt", ""))

OnInterrupt(prompt) == Return(SelNone)

\* if confirm != 'y': return None
ConfirmedAnythingButN(confirm) == confirm # "n"

Confirmed(confirm) == confirm = "y"

\* The body of the while loop for one entry at the index prompt.
SelectOnChoice(v, list, raw) ==
    LET choice_ == IF v = "web" THEN Strip(raw) ELSE Lower(Strip(raw))
        n == py_int(choice_)
    IN  IF Lower(choice_) \in {"q", "quit", "exit"} THEN Return(SelNone)
        ELSE IF v = "ncrpes" /\ choice_ = "all" THEN Return(SelAll(list))
        ELSE IF n.kind = "raise" THEN OnValueError(n.exc)
        ELSE LET vm_index == n.value - 1
             IN  IF 0 <= vm_index /\ vm_index < Len(list)
                 THEN LET selected_vm == list[vm_index + 1]
                      IN  IF selected_vm.power_state # "running"
                          THEN [pc |-> "confirm_prompt", selected |-> SelPending(selected_vm)]
                          ELSE Return(SelVm(selected_vm))
                 ELSE Reprompt

\* The rest of the loop body once 'Continue anyway?' is answered.
SelectOnConfirm(selected_vm, raw) ==
    LET confirm == Lower(Strip(raw))
    IN  IF ~Confirmed(confirm) THEN Return(SelNone) ELSE Return(SelVm(selected_vm))

SelectionIdle ==
    /\ svms = <<>>
    /\ spc = "idle"
    /\ reprompted = FALSE
    /\ choice = NoInput
    /\ answer = NoInput
    /\ selected = NotReturned

\* The prompt is entered: an empty list returns None, otherwise the list is
\* printed and the first input() is reached.
SelectEnter ==
    /\ spc = "called"
    /\ IF Len(svms) = 0
       THEN spc' = "returned" /\ selected' = SelNone
       ELSE spc' = "index_prompt" /\ UNCHANGED selected
    /\ UNCHANGED <<variant, healthVars, discVars, runVars, svms, reprompted, choice, answer>>

\* The operator enters a line at the index prompt.
IndexInput ==
    /\ spc = "index_prompt"
    /\ \E raw \in OperatorInputs :
        LET out == SelectOnChoice(variant, svms, raw)
        IN  /\ choice' = raw
            /\ spc' = out.pc
            /\ selected' = out.selected
            /\ reprompted' = (reprompted \/ out.pc = "index_prompt")
    /\ UNCHANGED <<variant, healthVars, discVars, runVars, svms, answer>>

\* The operator answers 'Continue anyway?'.
ConfirmInput ==
    /\ spc = "confirm_prompt"
    /\ \E raw \in OperatorInputs :
        LET out == SelectOnConfirm(selected.vm, raw)
        IN  /\ answer' = raw
            /\ spc' = out.pc
            /\ selected' = out.selected
    /\ UNCHANGED <<variant, healthVars, discVars, runVars, svms, reprompted, choice>>

\* The operator interrupts the input() the prompt is blocked in.
InterruptInput ==
    /\ spc \in {"index_prompt", "confirm_prompt"}
    /\ LET out == OnInterrupt(spc)
       IN  /\ spc' = out.pc
           /\ selected' = out.selected
    /\ IF spc = "index_prompt"
       THEN choice' = Interrupt /\ UNCHANGED answer
       ELSE answer' = Interrupt /\ UNCHANGED choice
    /\ UNCHANGED <<variant, healthVars, discVars, runVars, svms, reprompted>>

NoFault == [cls |-> "<no fault>", msg |-> ""]

\* exit_status while the process has not ended.
Running == 0 - 1

RunIdle ==
    /\ rpc = "idle"
    /\ rindex = 0
    /\ requests = <<>>
    /\ reports = <<>>
    /\ exit_status = Running
    /\ services = <<>>
    /\ entered = <<>>
    /\ final_confirm = NoInput
    /\ raising = NoFault
    /\ printed = <<>>

(***************************************************************************)
(* VM discovery: get_clpe_web_vms ("web") and get_clpe_vms ("ncrpes").     *)
(* A raw VM carries what the loop reads: name, id, the OS disk's os_type   *)
(* (None, or an enum whose .name is given) and tags (None or a map).       *)
(* location and vm_size are copied into vm_info unread and are left out.   *)
(***************************************************************************)
Absent == "<absent>"

SystemValue == "CENTRAL_LOYALTY_PROMOTIONS_ENGINE"
clpe_tag == "System:CENTRAL_LOYALTY_PROMOTIONS_ENGINE"

\* The map holding the keys whose choice is not Absent.
MkTags(c) == [k \in {kk \in DOMAIN c : c[kk] # Absent} |-> c[k]]

TagMaps ==
    {MkTags([System |-> SystemValue, ARIS |-> a, Name |-> n]) :
        a \in {Absent, "CLPE"}, n \in {Absent, "web-prod-01", "CLPE-DB-01"}}
    \cup {MkTags([System |-> s, ARIS |-> "CLPE", Name |-> "web-prod-01"]) :
            s \in {Absent, "OTHER_SYSTEM"}}
    \cup {MkTags([Label |-> clpe_tag, System |-> s]) : s \in {Absent, SystemValue}}
    \cup {MkTags([System |-> SystemValue, ARIS |-> "CLPE", Name |-> "ClpeWeb02"])}
    \cup {<<>>}

TagChoices == {[none |-> TRUE, map |-> <<>>]} \cup {[none |-> FALSE, map |-> m] : m \in TagMaps}

OsTypes == {None, "WINDOWS", "LINUX"}

\* The VMs list_all() can yield in position i.
RawVmsAt(i) ==
    {[name |-> NameAt[i],
      id |-> "/subscriptions/sub/resourceGroups/" \o RgAt[i]
                \o "/providers/Microsoft.Compute/virtualMachines/" \o NameAt[i],
      os_type |-> os,
      tags |-> t] : os \in OsTypes, t \in TagChoices}

\* instance_view(...): a fault, or the list of status codes.
LookupOutcomes ==
    {Raised(Exc("AzureError", "instance view unavailable")),
     Returned(<<"ProvisioningState/succeeded", "PowerState/running">>),
     Returned(<<"ProvisioningState/succeeded", "PowerState/deallocated">>),
     Returned(<<"ProvisioningState/succeeded">>)}

NotCalled == [kind |-> "not_called"]

\* Python truthiness of vm.tags, tags.get(key, default), tags.values().
TagsTruthy(t) == ~t.none /\ DOMAIN t.map # {}
TagsGet(t, key, default) == IF key \in DOMAIN t.map THEN t.map[key] ELSE default
TagsValues(t) == {t.map[k] : k \in DOMAIN t.map}

\* name_tag = vm.tags.get('Name', '')
name_tag_is_resource_name(vm) == vm.name

name_tag(vm) == TagsGet(vm.tags, "Name", "")

\* get_clpe_web_vms, the filter of one VM: TRUE when no `continue` is taken.
WebFilter(vm) ==
    IF ~(vm.os_type # None /\ Lower(vm.os_type) = "windows") THEN Returned(FALSE)
    ELSE IF ~TagsTruthy(vm.tags) THEN Returned(FALSE)
    ELSE IF TagsGet(vm.tags, "System", None) # SystemValue THEN Returned(FALSE)
    ELSE IF TagsGet(vm.tags, "ARIS", None) # "CLPE" THEN Returned(FALSE)
    ELSE IF ~Contains(Upper(name_tag(vm)), "WEB") THEN Returned(FALSE)
    ELSE Returned(TRUE)

\* get_clpe_vms, the condition of one VM; os_type None has no .name.
NcrpesFilter(vm) ==
    IF vm.os_type = None
    THEN Raised(Exc("AttributeError", "'NoneType' object has no attribute 'name'"))
    ELSE Returned(/\ Lower(vm.os_type) = "windows"
                  /\ TagsTruthy(vm.tags)
                  /\ clpe_tag \in TagsValues(vm.tags))

FilterOf(v, vm) == IF v = "web" THEN WebFilter(vm) ELSE NcrpesFilter(vm)

\* The first status code prefixed 'PowerState/', its last '/' field.
RECURSIVE FirstPowerState(_, _)
FirstPowerState(statuses, default) ==
    IF statuses = <<>> THEN default
    ELSE IF StartsWith(Head(statuses), "PowerState/")
    THEN LET fields == Split(Head(statuses), "/") IN fields[Len(fields)]
    ELSE FirstPowerState(Tail(statuses), default)

\* The try around instance_view: a fault is printed as a warning and the
\* power state stays 'unknown'.
PowerStateLookupAborting(lookup) ==
    IF lookup.kind = "raise" THEN Raised(lookup.exc)
    ELSE Returned(FirstPowerState(lookup.value, "unknown"))

PowerStateLookup(lookup) ==
    IF lookup.kind = "raise"
    THEN IF Catches("Exception", lookup.exc.cls) THEN Returned("unknown")
         ELSE Raised(lookup.exc)
    ELSE Returned(FirstPowerState(lookup.value, "unknown"))

\* vm_info of a VM that passed the filter.
vm_info(vm, ps) ==
    [name |-> vm.name,
     resource_group |-> Split(vm.id, "/")[5],
     power_state |-> ps,
     tags |-> IF TagsTruthy(vm.tags) THEN vm.tags.map ELSE <<>>]

\* vms.append(vm_info)
AppendVmFirst(list, info) == <<info>> \o list

AppendVm(list, info) == Append(list, info)

NoList == [ended |-> "not_yet", list |-> <<>>]

DiscoveryIdle ==
    /\ enumeration = <<>>
    /\ lookups = <<>>
    /\ vms = <<>>
    /\ dpc = "idle"
    /\ discovered = NoList

\* One pass of the for loop: list_all() yields the next VM; it is filtered and,
\* when it passes, its power state is looked up and it is appended.
ListNext ==
    /\ dpc = "listing"
    /\ Len(enumeration) < MaxEnum
    /\ \E vm \in RawVmsAt(Len(enumeration) + 1) :
        LET f == FilterOf(variant, vm)
        IN  /\ enumeration' = Append(enumeration, vm)
            /\ IF f.kind = "raise"
               THEN /\ lookups' = Append(lookups, NotCalled)
                    /\ dpc' = "raised"
                    /\ discovered' = [ended |-> f.exc.cls, list |-> <<>>]
                    /\ UNCHANGED vms
               ELSE IF ~f.value
               THEN /\ lookups' = Append(lookups, NotCalled)
                    /\ UNCHANGED <<vms, dpc, discovered>>
               ELSE \E lookup \in LookupOutcomes :
                    LET ps == PowerStateLookup(lookup)
                    IN  /\ lookups' = Append(lookups, lookup)
                        /\ IF ps.kind = "raise"
                           THEN /\ dpc' = "raised"
                                /\ discovered' = [ended |-> ps.exc.cls, list |-> <<>>]
                                /\ UNCHANGED vms
                           ELSE /\ vms' = AppendVm(vms, vm_info(vm, ps.value))
                                /\ UNCHANGED <<dpc, discovered>>
    /\ UNCHANGED <<variant, healthVars, selVars, runVars>>

\* list_all() is exhausted: return vms.
ListExhausted ==
    /\ dpc = "listing"
    /\ dpc' = "returned"
    /\ discovered' = [ended |-> "exhausted", list |-> vms]
    /\ UNCHANGED <<variant, healthVars, selVars, runVars, enumeration, lookups, vms>>

\* list_all() raises AzureError fetching the next page: except AzureError
\* prints the error and returns [].
ListFails ==
    /\ dpc = "listing"
    /\ dpc' = "returned"
    /\ discovered' = [ended |-> "AzureError", list |-> <<>>]
    /\ UNCHANGED <<variant, healthVars, selVars, runVars, enumeration, lookups, vms>>

\* The whole of get_clpe_web_vms / get_clpe_vms as one call: the for loop over
\* what list_all() yields (each VM paired with what instance_view does for
\* it), ended by exhaustion or by a fault of list_all(), inside the method's
\* try ... except AzureError: return [].
RECURSIVE ForEachVm(_, _, _)
ForEachVm(v, items, acc) ==
    IF items = <<>> THEN Returned(acc)
    ELSE LET vm == Head(items).vm
             f == FilterOf(v, vm)
         IN  IF f.kind = "raise" THEN f
             ELSE IF ~f.value THEN ForEachVm(v, Tail(items), acc)
             ELSE LET ps == PowerStateLookup(Head(items).lookup)
                  IN  IF ps.kind = "raise" THEN ps
                      ELSE ForEachVm(v, Tail(items), AppendVm(acc, vm_info(vm, ps.value)))

ListedAll == Exc("<exhausted>", "")

get_vms(v, items, ending) ==
    LET loop == ForEachVm(v, items, <<>>)
        out == IF loop.kind = "return" /\ ending # ListedAll THEN Raised(ending) ELSE loop
    IN  IF out.kind = "raise" /\ Catches("AzureError", out.exc.cls) THEN Returned(<<>>)
        ELSE out

HealthIdle ==
    /\ hpc = "idle"
    /\ hvm = None
    /\ response = [kind |-> "none"]
    /\ result = [kind |-> "none"]

InitDiscovery ==
    /\ variant \in Variants
    /\ RunIdle
    /\ HealthIdle
    /\ SelectionIdle
    /\ enumeration = <<>>
    /\ lookups = <<>>
    /\ vms = <<>>
    /\ dpc = "listing"
    /\ discovered = NoList

NextDiscovery == ListNext \/ ListExhausted \/ ListFails

SpecDiscovery == InitDiscovery /\ [][NextDiscovery]_vars

(***************************************************************************)
(* Claims about discovery (checked under SpecDiscovery).                   *)
(***************************************************************************)
IsWindows(vm) == vm.os_type # None /\ Lower(vm.os_type) = "windows"

HasPair(vm, key, value) ==
    ~vm.tags.none /\ key \in DOMAIN vm.tags.map /\ vm.tags.map[key] = value

RequiredPairs(v) ==
    IF v = "web" THEN {<<"System", SystemValue>>, <<"ARIS", "CLPE">>}
    ELSE {<<"System", SystemValue>>}

MeetsRequired(v, vm) ==
    IsWindows(vm) /\ \A pair \in RequiredPairs(v) : HasPair(vm, pair[1], pair[2])

\* The WEB variant's further criterion on the Name tag.
MeetsNameCriterion(v, vm) ==
    v = "web" =>
        \E n \in {"Name"} \cap (IF vm.tags.none THEN {} ELSE DOMAIN vm.tags.map) :
            Contains(Upper(vm.tags.map[n]), "WEB")

NamesOf(list) == {list[j].name : j \in 1..Len(list)}

PositionOf(name) == CHOOSE i \in 1..Len(enumeration) : enumeration[i].name = name

PassedFilter(i) == FilterOf(variant, enumeration[i]) = Returned(TRUE)

EnumerationCompleted == dpc = "returned" /\ discovered.ended = "exhausted"

\* C2: discovery returns only VMs whose OS disk type is windows and whose tag
\* map holds every required (key, value) pair exactly (System =
\* CENTRAL_LOYALTY_PROMOTIONS_ENGINE, and for the WEB variant ARIS = CLPE too),
\* it returns every such VM (in the WEB variant: every such VM meeting the Name
\* criterion), and it never returns a VM without a tag map.
C2_FilterByRequiredTags ==
    EnumerationCompleted =>
        \A i \in 1..Len(enumeration) :
            LET vm == enumeration[i]
                returned == vm.name \in NamesOf(discovered.list)
            IN  /\ returned => MeetsRequired(variant, vm)
                /\ (MeetsRequired(variant, vm) /\ MeetsNameCriterion(variant, vm)) => returned
                /\ vm.tags.none => ~returned

\* C9: when the power-state lookup of a VM that passed the filter fails, the VM
\* is kept with power state 'unknown', discovery does not end by that fault,
\* the VMs enumerated after it are still filtered and appended, and the list
\* returned at the end of the enumeration holds the VM.
C9_LookupFailureKeepsVm ==
    \A i \in 1..Len(enumeration) :
        lookups[i].kind = "raise" =>
            /\ \E j \in 1..Len(vms) :
                    vms[j].name = enumeration[i].name /\ vms[j].power_state = "unknown"
            /\ dpc = "raised" => (i < Len(enumeration) /\ lookups[Len(enumeration)] = NotCalled)
            /\ \A k \in (i + 1)..Len(enumeration) :
                    PassedFilter(k) => enumeration[k].name \in NamesOf(vms)
            /\ EnumerationCompleted =>
                    \E j \in 1..Len(discovered.list) :
                        /\ discovered.list[j].name = enumeration[i].name
                        /\ discovered.list[j].power_state = "unknown"

\* C9 witness: the lookup of the first VM failed, a second VM was processed
\* after it, and discovery returned both.
C9_Witness ==
    /\ EnumerationCompleted
    /\ Len(enumeration) = 2
    /\ lookups[1].kind = "raise"
    /\ Len(discovered.list) = 2
    /\ discovered.list[1].power_state = "unknown"
    /\ discovered.list[2].power_state = "running"

\* C10: the returned list is a subsequence of the enumeration: every entry is
\* an enumerated VM, entries keep the enumeration's relative order (so none
\* appears twice), and when the enumeration completes every VM that passed the
\* filter appears.
C10_OrderPreserved ==
    dpc = "returned" =>
        /\ NamesOf(discovered.list) \subseteq NamesOf(enumeration)
        /\ \A j1, j2 \in 1..Len(discovered.list) :
                j1 < j2 =>
                    PositionOf(discovered.list[j1].name) < PositionOf(discovered.list[j2].name)
        /\ EnumerationCompleted =>
                \A i \in 1..Len(enumeration) :
                    PassedFilter(i) => enumeration[i].name \in NamesOf(discovered.list)

\* C10 witness: two VMs passed the filter and were returned in enumeration order.
C10_Witness ==
    /\ EnumerationCompleted
    /\ Len(discovered.list) = 2
    /\ discovered.list[1].name = enumeration[1].name
    /\ discovered.list[2].name = enumeration[2].name

\* The VM reached the name test of the WEB filter: Windows, with the System
\* and ARIS pairs.
ReachedNameTest(vm) == MeetsRequired("web", vm)

\* The VM has a Name tag holding 'web' in some letter case.
NameTagHoldsWeb(vm) ==
    /\ ~vm.tags.none
    /\ "Name" \in DOMAIN vm.tags.map
    /\ Contains(Lower(vm.tags.map["Name"]), "web")

\* C11: in the WEB variant a VM that reached the name test passes the filter
\* (its power state is looked up) exactly when its Name tag holds 'WEB' in any
\* letter case; the resource name plays no part, and a VM without a Name tag
\* fails.
C11_NameCriterionOnNameTag ==
    variant = "web" =>
        \A i \in 1..Len(enumeration) :
            ReachedNameTest(enumeration[i]) =>
                ((lookups[i] # NotCalled) <=> NameTagHoldsWeb(enumeration[i]))

\* C11 witness: a VM whose resource name holds 'web' but whose Name tag does not
\* was dropped, and a VM named 'vm2' whose Name tag is 'web-prod-01' was kept.
C11_Witness ==
    /\ variant = "web"
    /\ EnumerationCompleted
    /\ Len(enumeration) = 2
    /\ ReachedNameTest(enumeration[1]) /\ ReachedNameTest(enumeration[2])
    /\ Contains(Upper(enumeration[1].name), "WEB")
    /\ ~NameTagHoldsWeb(enumeration[1])
    /\ NameTagHoldsWeb(enumeration[2])
    /\ enumeration[2].tags.map["Name"] = "web-prod-01"
    /\ NamesOf(discovered.list) = {"vm2"}

(***************************************************************************)
(* The remote execution primitive, begin_run_command(...).result(): it     *)
(* raises a fault, or returns an object whose .value is None or a list of  *)
(* status objects.  Only value[0].message is ever read, so the entries     *)
(* after the first carry the empty text.                                   *)
(***************************************************************************)
Messages == TextsUpTo(JsonChars, MaxMsgLen) \cup {None}

Status(m) == [message |-> m]

ValueLists ==
    {<<>>} \cup
    {<<Status(m)>> \o [i \in 1..k |-> Status("")] : m \in Messages, k \in 0..(MaxValues - 1)}

RemoteFaults == {Exc("AzureError", "throttled"), Exc("ConnectionError", "reset")}

Responses ==
    {Raised(e) : e \in RemoteFaults}
    \cup {Returned([none |-> TRUE, list |-> <<>>])}
    \cup {Returned([none |-> FALSE, list |-> l]) : l \in ValueLists}

NoResponse == [kind |-> "none"]
NoResult == [kind |-> "none"]

\* The except clauses that close both health-check calls: AzureError first,
\* then Exception; a fault neither catches leaves the call.
ExceptClausesAzureOnly(e) ==
    IF Catches("AzureError", e.cls)
    THEN [caught |-> TRUE, error |-> "Azure API error: " \o e.msg]
    ELSE [caught |-> FALSE, error |-> ""]

ExceptClauses(e) ==
    IF Catches("AzureError", e.cls)
    THEN [caught |-> TRUE, error |-> "Azure API error: " \o e.msg]
    ELSE IF Catches("Exception", e.cls)
    THEN [caught |-> TRUE, error |-> "Unexpected error: " \o e.msg]
    ELSE [caught |-> FALSE, error |-> ""]

\* raw_output of the parse-failure result.
ParseFailureRawMutant(output) == ""

ParseFailureRaw(output) == output

\* AzureCLPEServiceHealthChecker.check_service_health, from the try on.
check_service_health(vm, resp) ==
    LET failure(err) == [success |-> FALSE, error |-> err, raw_output |-> ""]
        handled(e) ==
            IF ExceptClauses(e).caught THEN Returned(failure(ExceptClauses(e).error))
            ELSE Raised(e)
    IN  IF resp.kind = "raise" THEN handled(resp.exc)
        ELSE IF ~resp.value.none /\ Len(resp.value.list) > 0 THEN
            LET output == resp.value.list[1].message
                parsed == json_loads(output)
            IN  IF parsed.kind = "return" THEN
                    Returned([success |-> TRUE,
                              services |-> IF parsed.value.kind = "list"
                                           THEN parsed.value.items
                                           ELSE <<parsed.value>>,
                              raw_output |-> output])
                ELSE IF Catches("JSONDecodeError", parsed.exc.cls) THEN
                    Returned([success |-> FALSE,
                              error |-> "Failed to parse service information",
                              raw_output |-> ParseFailureRaw(output)])
                ELSE handled(parsed.exc)
        ELSE Returned([success |-> FALSE,
                       error |-> "No output received from VM",
                       raw_output |-> ""])

\* CLPENCRPESMonitor.monitor_ncrpes_service, from the try on.
monitor_ncrpes_service(vm, resp) ==
    LET failure(err) ==
            [success |-> FALSE, vm_name |-> vm.name, error |-> err, raw_output |-> ""]
        handled(e) ==
            IF ExceptClauses(e).caught THEN Returned(failure(ExceptClauses(e).error))
            ELSE Raised(e)
    IN  IF resp.kind = "raise" THEN handled(resp.exc)
        ELSE IF ~resp.value.none /\ Len(resp.value.list) > 0 THEN
            LET output == resp.value.list[1].message
                parsed == json_loads(output)
            IN  IF parsed.kind = "return" THEN
                    Returned([success |-> TRUE,
                              vm_name |-> vm.name,
                              data |-> parsed.value,
                              raw_output |-> output])
                ELSE IF Catches("JSONDecodeError", parsed.exc.cls) THEN
                    Returned([success |-> FALSE,
                              vm_name |-> vm.name,
                              error |-> "Failed to parse service information",
                              raw_output |-> ParseFailureRaw(output)])
                ELSE handled(parsed.exc)
        ELSE Returned([success |-> FALSE,
                       vm_name |-> vm.name,
                       error |-> "No output received from VM",
                       raw_output |-> ""])

\* The health-check call of the running variant.
HealthCheckCall(v, vm, resp) ==
    IF v = "web" THEN check_service_health(vm, resp) ELSE monitor_ncrpes_service(vm, resp)

(***************************************************************************)
(* The health-check call on its own: Building -> Submitted -> terminal.    *)
(***************************************************************************)
CheckTargets == {VmInfo("vm1", "rgA", "running"), VmInfo("vm2", "rgB", "deallocated")}

\* The script is built and begin_run_command(...).result() blocks until the
\* remote primitive answers.
Submit ==
    /\ hpc = "Building"
    /\ \E resp \in Responses : response' = resp
    /\ hpc' = "Submitted"
    /\ UNCHANGED <<variant, hvm, result, discVars, selVars, runVars>>

\* The answer is parsed and the call ends.
Finish ==
    /\ hpc = "Submitted"
    /\ result' = HealthCheckCall(variant, hvm, response)
    /\ hpc' = IF result'.kind = "return" THEN "returned" ELSE "raised"
    /\ UNCHANGED <<variant, hvm, response, discVars, selVars, runVars>>

InitCheck ==
    /\ variant \in Variants
    /\ RunIdle
    /\ DiscoveryIdle
    /\ SelectionIdle
    /\ hvm \in CheckTargets
    /\ hpc = "Building"
    /\ response = NoResponse
    /\ result = NoResult

NextCheck == Submit \/ Finish

SpecCheck == InitCheck /\ [][NextCheck]_vars

(***************************************************************************)
(* The selection prompt on its own.                                        *)
(***************************************************************************)
InitSelect ==
    /\ variant \in Variants
    /\ RunIdle
    /\ HealthIdle
    /\ DiscoveryIdle
    /\ svms \in VmLists
    /\ spc = "called"
    /\ reprompted = FALSE
    /\ choice = NoInput
    /\ answer = NoInput
    /\ selected = NotReturned

NextSelect == SelectEnter \/ IndexInput \/ ConfirmInput \/ InterruptInput

SpecSelect == InitSelect /\ [][NextSelect]_vars

(***************************************************************************)
(* run_clpe_monitoring inside main ("ncrpes"): selection, the security     *)
(* confirmation, then one monitor_ncrpes_service and one                   *)
(* display_ncrpes_results per VM.                                          *)
(***************************************************************************)
\* The first output messages the monitoring loop is run against.
RunMessages == {"{}", " {} ", "[]", "[{}]", "0", "", "{", "[0,", None}

RunResponses ==
    {Raised(e) : e \in RemoteFaults}
    \cup {Returned([none |-> TRUE, list |-> <<>>])}
    \cup {Returned([none |-> FALSE, list |-> <<>>])}
    \cup {Returned([none |-> FALSE, list |-> <<Status(m), Status("")>>]) : m \in RunMessages}

\* Usage figures are numbers rounded to two decimals by the remote script;
\* the model holds them in hundredths of a percent.
Scale == 100

\* dict.get(key, default) on a parsed object.
DictGet(dct, key, default) == IF key \in DOMAIN dct.items THEN dct.items[key] ELSE default

\* The severity marks of the System Performance block (green, yellow and red
\* circles in the source).
cpu_emoji_inclusive(cpu_usage) ==
    IF cpu_usage <= 70 * Scale THEN "green"
    ELSE IF cpu_usage <= 90 * Scale THEN "yellow" ELSE "red"

cpu_emoji(cpu_usage) ==
    IF cpu_usage < 70 * Scale THEN "green"
    ELSE IF cpu_usage < 90 * Scale THEN "yellow" ELSE "red"

mem_emoji(memory_usage) ==
    IF memory_usage < 80 * Scale THEN "green"
    ELSE IF memory_usage < 95 * Scale THEN "yellow" ELSE "red"

system_performance(data) ==
    LET sys_info == DictGet(data, "SystemInfo", JObj)
    IN  IF "Error" \notin DOMAIN sys_info.items
        THEN LET cpu_usage == DictGet(sys_info, "CPUUsage", 0)
                 memory_usage == DictGet(sys_info, "MemoryUsagePercent", 0)
             IN  "CPU " \o cpu_emoji(cpu_usage) \o ", Memory " \o mem_emoji(memory_usage)
        ELSE "System info error"

\* display_ncrpes_results: a failure is printed with its raw output; a success
\* is rendered through data.get(...), which only a dict has.
display_ncrpes_results(results) ==
    IF ~results.success THEN Returned("failure printed")
    ELSE IF results.data.kind # "dict"
    THEN Raised(Exc("AttributeError", "object has no attribute 'get'"))
    ELSE Returned("report printed: " \o system_performance(results.data))

Request(vm) ==
    [resource_group_name |-> vm.resource_group,
     vm_name |-> vm.name,
     command_id |-> "RunPowerShellScript"]

\* The VMs the monitoring part of run_clpe_monitoring goes through.
SelectionVms(selection) ==
    IF selection.kind = "all" THEN selection.vms ELSE <<selection.vm>>

\* What discovery is run against inside a whole run: per position a VM of
\* each OS type, untagged or carrying tags its variant's filter accepts, and
\* what instance_view does for it.
RunTagChoices ==
    {[none |-> TRUE, map |-> <<>>],
     [none |-> FALSE,
      map |-> MkTags([System |-> SystemValue, ARIS |-> "CLPE", Name |-> "web-prod-01"])],
     [none |-> FALSE, map |-> MkTags([Label |-> clpe_tag, System |-> Absent])]}

RunLookups ==
    {l \in LookupOutcomes :
        l.kind = "return" /\ FirstPowerState(l.value, "unknown") # "unknown"}

RunItemsAt(i) ==
    {[vm |-> vm, lookup |-> l] :
        vm \in {r \in RawVmsAt(i) : r.tags \in RunTagChoices}, l \in RunLookups}

RECURSIVE RunEnumerations(_)
RunEnumerations(n) ==
    IF n = 0 THEN {<<>>}
    ELSE LET shorter == RunEnumerations(n - 1)
         IN  shorter \cup {Append(e, it) : e \in {x \in shorter : Len(x) = n - 1},
                                           it \in RunItemsAt(n)}

\* How list_all() ends: exhausted, or a fault fetching a page.
ListEndings == {ListedAll} \cup RemoteFaults

\* vms = self.get_clpe_vms(); selection = self.select_clpe_vm(vms).  The
\* locals of the discovery call are gone when it returns.
RunDiscover ==
    /\ rpc = "discover"
    /\ \E items \in RunEnumerations(MaxEnum), ending \in ListEndings :
        LET out == get_vms(variant, items, ending)
        IN  IF out.kind = "raise"
            THEN /\ dpc' = "raised"
                 /\ discovered' = [ended |-> out.exc.cls, list |-> <<>>]
                 /\ raising' = out.exc
                 /\ rpc' = "raising"
                 /\ UNCHANGED <<svms, spc>>
            ELSE /\ dpc' = "returned"
                 /\ discovered' = [ended |-> ending.cls, list |-> out.value]
                 /\ svms' = out.value
                 /\ spc' = "called"
                 /\ rpc' = "select"
                 /\ UNCHANGED raising
    /\ UNCHANGED <<variant, healthVars, enumeration, lookups, vms, reprompted, choice, answer,
                   selected, rindex, requests, reports, exit_status, services, entered,
                   final_confirm, printed>>

\* select_clpe_vm has returned: `if not selection` ends the run.
RunAfterSelect ==
    /\ rpc = "select"
    /\ spc = "returned"
    /\ IF selected = SelNone
       THEN rpc' = "done" /\ exit_status' = 0
       ELSE rpc' = "security_confirm" /\ UNCHANGED exit_status
    /\ UNCHANGED <<variant, healthVars, discVars, selVars, rindex, requests, reports,
                   services, entered, final_confirm, raising, printed>>

\* The operator answers the security confirmation.
SecurityConfirm ==
    /\ rpc = "security_confirm"
    /\ \E raw \in ConfirmEntries :
        /\ final_confirm' = Lower(Strip(raw))
        /\ IF Lower(Strip(raw)) # "y"
           THEN rpc' = "done" /\ exit_status' = 0 /\ UNCHANGED rindex
           ELSE rpc' = "monitoring" /\ rindex' = 1 /\ UNCHANGED exit_status
    /\ UNCHANGED <<variant, healthVars, discVars, selVars, requests, reports, services, entered,
                   raising, printed>>

\* The operator interrupts the security confirmation: input() raises
\* KeyboardInterrupt, which nothing in run_clpe_monitoring catches.
SecurityInterrupt ==
    /\ rpc = "security_confirm"
    /\ final_confirm' = Interrupt
    /\ raising' = Exc("KeyboardInterrupt", "")
    /\ rpc' = "raising"
    /\ UNCHANGED <<variant, healthVars, discVars, selVars, rindex, requests, reports,
                   exit_status, services, entered, printed>>

\* One VM: monitor_ncrpes_service, then display_ncrpes_results.  A fault that
\* leaves either one leaves run_clpe_monitoring.
MonitorVm ==
    /\ rpc = "monitoring"
    /\ rindex <= Len(SelectionVms(selected))
    /\ \E resp \in RunResponses :
        LET vm == SelectionVms(selected)[rindex]
            results == monitor_ncrpes_service(vm, resp)
            shown == IF results.kind = "return"
                     THEN display_ncrpes_results(results.value) ELSE results
        IN  /\ requests' = Append(requests, Request(vm))
            /\ hvm' = vm
            /\ response' = resp
            /\ result' = results
            /\ IF shown.kind = "raise"
               THEN /\ reports' = Append(reports, shown.exc.cls)
                    /\ raising' = shown.exc
                    /\ rpc' = "raising"
                    /\ UNCHANGED rindex
               ELSE /\ reports' = Append(reports, shown.value)
                    /\ rindex' = rindex + 1
                    /\ UNCHANGED <<rpc, raising>>
    /\ UNCHANGED <<variant, hpc, discVars, selVars, exit_status, services, entered, final_confirm,
                   printed>>

\* The loop (or the single check) is over: the completion line is printed.
MonitoringDone ==
    /\ rpc = "monitoring"
    /\ rindex > Len(SelectionVms(selected))
    /\ rpc' = "done"
    /\ exit_status' = 0
    /\ UNCHANGED <<variant, healthVars, discVars, selVars, rindex, requests, reports,
                   services, entered, final_confirm, raising, printed>>

\* The except clauses of main (clpe_ncrpes_monitor.py): KeyboardInterrupt says
\* goodbye and main returns; Exception is printed and sys.exit(1) is called.
MainExceptNoExit(e) ==
    IF Catches("KeyboardInterrupt", e.cls) THEN [line |-> "Goodbye!", status |-> 0]
    ELSE [line |-> "Unexpected error: " \o e.msg, status |-> 0]

MainExcept(e) ==
    IF Catches("KeyboardInterrupt", e.cls) THEN [line |-> "Goodbye!", status |-> 0]
    ELSE [line |-> "Unexpected error: " \o e.msg, status |-> 1]

MainCatches ==
    /\ variant = "ncrpes"
    /\ rpc = "raising"
    /\ LET h == MainExcept(raising)
       IN  /\ printed' = Append(printed, h.line)
           /\ exit_status' = h.status
           /\ rpc' = IF h.status = 0 THEN "done" ELSE "crashed"
    /\ UNCHANGED <<variant, healthVars, discVars, selVars, rindex, requests, reports,
                   services, entered, final_confirm, raising>>

InitRun ==
    /\ variant = "ncrpes"
    /\ HealthIdle
    /\ DiscoveryIdle
    /\ SelectionIdle
    /\ rpc = "discover"
    /\ rindex = 0
    /\ requests = <<>>
    /\ reports = <<>>
    /\ exit_status = Running
    /\ services = <<>>
    /\ entered = <<>>
    /\ final_confirm = NoInput
    /\ raising = NoFault
    /\ printed = <<>>

NextRun ==
    \/ RunDiscover
    \/ SelectEnter \/ IndexInput \/ ConfirmInput \/ InterruptInput
    \/ RunAfterSelect \/ SecurityConfirm \/ SecurityInterrupt
    \/ MonitorVm \/ MonitoringDone \/ MainCatches

SpecRun == InitRun /\ [][NextRun]_vars

(***************************************************************************)
(* display_ncrpes_results on its own, over successful results whose        *)
(* SystemInfo carries usage figures.                                       *)
(***************************************************************************)
MaxPercent == 100   \* largest whole usage percentage displayed

\* Whole percentages, the hundredths next to each threshold, and a missing
\* key.
UsageFigures ==
    {p * Scale : p \in 0..MaxPercent}
    \cup {t * Scale + d : t \in {70, 80, 90, 95}, d \in {0 - 1, 1}}
    \cup {0 - 1}

\* A negative figure stands for a key the object does not hold.
UsageItems(c, m) ==
    [k \in {kk \in {"CPUUsage", "MemoryUsagePercent"} :
                (kk = "CPUUsage" /\ c >= 0) \/ (kk = "MemoryUsagePercent" /\ m >= 0)} |->
        IF k = "CPUUsage" THEN c ELSE m]

SystemInfos ==
    {[kind |-> "dict", items |-> UsageItems(c, m)] : c \in UsageFigures, m \in UsageFigures}
    \cup {[kind |-> "dict", items |-> [Error |-> "Access denied"]]}

DisplayInputs ==
    {[success |-> TRUE,
      vm_name |-> "vm2",
      data |-> [kind |-> "dict", items |-> [SystemInfo |-> si]],
      raw_output |-> ""] : si \in SystemInfos}

Display ==
    /\ rpc = "display"
    /\ LET shown == display_ncrpes_results(result.value)
       IN  reports' = Append(reports, IF shown.kind = "raise" THEN shown.exc.cls
                                      ELSE shown.value)
    /\ rpc' = "displayed"
    /\ UNCHANGED <<variant, healthVars, discVars, selVars, rindex, requests, exit_status,
                   services, entered, final_confirm, raising, printed>>

InitDisplay ==
    /\ variant = "ncrpes"
    /\ hpc = "returned"
    /\ hvm = None
    /\ response = NoResponse
    /\ \E results \in DisplayInputs : result = Returned(results)
    /\ DiscoveryIdle
    /\ SelectionIdle
    /\ rpc = "display"
    /\ rindex = 0
    /\ requests = <<>>
    /\ reports = <<>>
    /\ exit_status = Running
    /\ services = <<>>
    /\ entered = <<>>
    /\ final_confirm = NoInput
    /\ raising = NoFault
    /\ printed = <<>>

NextDisplay == Display

SpecDisplay == InitDisplay /\ [][NextDisplay]_vars

(***************************************************************************)
(* azure_service_health_checker.py as a whole: main, and the method        *)
(* run_health_check entered on a constructed checker.  Four names the      *)
(* file calls are defined nowhere in it; three of them are modelled from   *)
(* the specification (get_windows_vms, select_clpe_web_vm,                 *)
(* get_services_to_check).  The fourth call,                               *)
(* AzureServiceHealthChecker(subscription_id), also reads a variable main  *)
(* never binds, so it raises NameError whatever the class is.              *)
(***************************************************************************)
MaxServices == 2    \* most service names entered in one run

\* What the operator can type at 'Service name: '.
ServiceEntries == {"", "W3SVC", " Spooler "}

RECURSIVE JoinWith(_, _)
JoinWith(sep, names) ==
    IF names = <<>> THEN ""
    ELSE IF Len(names) = 1 THEN names[1]
    ELSE names[1] \o sep \o JoinWith(sep, Tail(names))

\* begin_run_command of check_service_health: the script carries the names.
WebRequest(vm, service_names) ==
    [resource_group_name |-> vm.resource_group,
     vm_name |-> vm.name,
     command_id |-> "RunPowerShellScript",
     service_names |-> service_names,
     services_list |-> JoinWith("', '", service_names)]

\* display_service_results: a failure is printed; a success is rendered by
\* subscripting every entry of results['services'] with 'Status', which only
\* a dict holding that key allows.
display_service_results(results) ==
    IF ~results.success THEN Returned("failure printed")
    ELSE IF results.services = <<>> THEN Returned("report printed")
    ELSE IF results.services[1].kind = "dict"
    THEN Raised(Exc("KeyError", "'Status'"))
    ELSE Raised(Exc("TypeError", "object is not subscriptable"))

\* run_health_check, line 301 (modelled from the specification: discovery
\* hands over a list of VM descriptors).
get_windows_vms ==
    /\ rpc = "rhc_discover"
    /\ \E list \in VmLists : discovered' = [ended |-> ListedAll.cls, list |-> list]
    /\ dpc' = "returned"
    /\ rpc' = "rhc_select_call"
    /\ UNCHANGED <<variant, healthVars, enumeration, lookups, vms, selVars, rindex, requests,
                   reports, exit_status, services, entered, final_confirm, raising, printed>>

\* selected_vm = self.select_vm(vms)
RhcSelectCall ==
    /\ rpc = "rhc_select_call"
    /\ svms' = discovered.list
    /\ spc' = "called"
    /\ rpc' = "rhc_select"
    /\ UNCHANGED <<variant, healthVars, discVars, reprompted, choice, answer, selected,
                   rindex, requests, reports, exit_status, services, entered, final_confirm,
                   raising, printed>>

\* select_vm has returned: `if not selected_vm` ends the run.
RhcAfterSelect ==
    /\ rpc = "rhc_select"
    /\ spc = "returned"
    /\ rpc' = IF selected = SelNone THEN "returned" ELSE "service_entry"
    /\ UNCHANGED <<variant, healthVars, discVars, selVars, rindex, requests, reports,
                   exit_status, services, entered, final_confirm, raising, printed>>

\* services.append(service): the entry loop keeps every non-blank entry.
AppendService(list, service) == Append(list, service)

\* `if not services` after the entry loop.
NoServicesIgnored(list) == FALSE

NoServices(list) == list = <<>>

\* One pass of the entry loop: a blank entry ends it, and with no name
\* entered the run ends there.
ServiceEntry ==
    /\ rpc = "service_entry"
    /\ \E raw \in ServiceEntries :
        LET service == Strip(raw)
        IN  /\ entered' = Append(entered, raw)
            /\ IF service = ""
               THEN /\ rpc' = IF NoServices(services) THEN "returned" ELSE "proceed_confirm"
                    /\ UNCHANGED services
               ELSE /\ Len(services) < MaxServices
                    /\ services' = AppendService(services, service)
                    /\ UNCHANGED rpc
    /\ UNCHANGED <<variant, healthVars, discVars, selVars, rindex, requests, reports,
                   exit_status, final_confirm, raising, printed>>

\* 'Proceed with health check? (y/N)'
ProceedAnythingButN(text) == text # "n"

Proceed(text) == text = "y"

ProceedConfirm ==
    /\ rpc = "proceed_confirm"
    /\ \E raw \in ConfirmEntries :
        /\ final_confirm' = Lower(Strip(raw))
        /\ rpc' = IF Proceed(Lower(Strip(raw))) THEN "rhc_check" ELSE "returned"
    /\ UNCHANGED <<variant, healthVars, discVars, selVars, rindex, requests, reports,
                   exit_status, services, entered, raising, printed>>

\* What the remote primitive does in a run of the health checker.
HealthRunResponses ==
    {Raised(Exc("AzureError", "throttled")),
     Returned([none |-> TRUE, list |-> <<>>])}
    \cup {Returned([none |-> FALSE, list |-> <<Status(m)>>]) : m \in {"[]", "[{}]", "0", "{"}}

\* check_service_health, then display_service_results: the steps shared by
\* run_health_check (lines 332-335) and main (lines 400-403).
CheckAndDisplay(onward, onfault) ==
    \E resp \in HealthRunResponses :
        LET results == check_service_health(selected.vm, resp)
            shown == IF results.kind = "return"
                     THEN display_service_results(results.value) ELSE results
        IN  /\ requests' = Append(requests, WebRequest(selected.vm, services))
            /\ hvm' = selected.vm
            /\ response' = resp
            /\ result' = results
            /\ IF shown.kind = "raise"
               THEN /\ reports' = Append(reports, shown.exc.cls)
                    /\ raising' = shown.exc
                    /\ rpc' = onfault
               ELSE /\ reports' = Append(reports, shown.value)
                    /\ rpc' = onward
                    /\ UNCHANGED raising

RhcCheck ==
    /\ rpc = "rhc_check"
    /\ CheckAndDisplay("returned", "rhc_raised")
    /\ UNCHANGED <<variant, hpc, discVars, selVars, rindex, exit_status, services, entered,
                   final_confirm, printed>>

\* main, lines 359-364: the confirmation before anything is done.
WebMainConfirm ==
    /\ rpc = "main_confirm"
    /\ \E raw \in ConfirmEntries :
        /\ final_confirm' = Lower(Strip(raw))
        /\ IF Lower(Strip(raw)) # "y"
           THEN rpc' = "done" /\ exit_status' = 0
           ELSE rpc' = "main_discover" /\ UNCHANGED exit_status
    /\ UNCHANGED <<variant, healthVars, discVars, selVars, rindex, requests, reports,
                   services, entered, raising, printed>>

\* main, lines 371-382: vms = checker.get_clpe_web_vms(); `if not vms` ends
\* main.
WebMainDiscover ==
    /\ rpc = "main_discover"
    /\ \E items \in RunEnumerations(MaxEnum), ending \in ListEndings :
        LET out == get_vms(variant, items, ending)
        IN  IF out.kind = "raise"
            THEN /\ dpc' = "raised"
                 /\ discovered' = [ended |-> out.exc.cls, list |-> <<>>]
                 /\ raising' = out.exc
                 /\ rpc' = "main_raising"
                 /\ UNCHANGED exit_status
            ELSE /\ dpc' = "returned"
                 /\ discovered' = [ended |-> ending.cls, list |-> out.value]
                 /\ UNCHANGED raising
                 /\ IF out.value = <<>>
                    THEN rpc' = "done" /\ exit_status' = 0
                    ELSE rpc' = "main_select_call" /\ UNCHANGED exit_status
    /\ UNCHANGED <<variant, healthVars, enumeration, lookups, vms, selVars, rindex, requests,
                   reports, services, entered, final_confirm, printed>>

\* main, line 385 (modelled from the specification: the selection prompt, as
\* select_vm implements it).
select_clpe_web_vm ==
    /\ rpc = "main_select_call"
    /\ svms' = discovered.list
    /\ spc' = "called"
    /\ rpc' = "main_select"
    /\ UNCHANGED <<variant, healthVars, discVars, reprompted, choice, answer, selected,
                   rindex, requests, reports, exit_status, services, entered, final_confirm,
                   raising, printed>>

\* main, lines 386-388: `if not selected_vm` ends main.
WebMainAfterSelect ==
    /\ rpc = "main_select"
    /\ spc = "returned"
    /\ IF selected = SelNone
       THEN rpc' = "done" /\ exit_status' = 0
       ELSE rpc' = "main_services_call" /\ UNCHANGED exit_status
    /\ UNCHANGED <<variant, healthVars, discVars, selVars, rindex, requests, reports,
                   services, entered, final_confirm, raising, printed>>

\* main, line 391 (modelled from the specification: free-form service-name
\* entry ended by a blank line, so any list of names, the empty one too).
RECURSIVE ServiceLists(_)
ServiceLists(n) ==
    IF n = 0 THEN {<<>>}
    ELSE LET shorter == ServiceLists(n - 1)
         IN  shorter \cup {Append(l, e) : l \in shorter, e \in ServiceEntries \ {""}}

get_services_to_check ==
    /\ rpc = "main_services_call"
    /\ \E list \in ServiceLists(MaxServices) :
        /\ entered' = Append(list, "")
        /\ services' = [i \in 1..Len(list) |-> Strip(list[i])]
    /\ rpc' = "main_services"
    /\ UNCHANGED <<variant, healthVars, discVars, selVars, rindex, requests, reports,
                   exit_status, final_confirm, raising, printed>>

\* main, lines 392-394: `if not services` ends main.
WebMainAfterServices ==
    /\ rpc = "main_services"
    /\ IF NoServices(services)
       THEN rpc' = "done" /\ exit_status' = 0
       ELSE rpc' = "main_check" /\ UNCHANGED exit_status
    /\ UNCHANGED <<variant, healthVars, discVars, selVars, rindex, requests, reports,
                   services, entered, final_confirm, raising, printed>>

\* main, lines 400-405; the first try ends and control reaches the second.
WebMainCheck ==
    /\ rpc = "main_check"
    /\ CheckAndDisplay("second_try", "main_raising")
    /\ UNCHANGED <<variant, hpc, discVars, selVars, rindex, exit_status, services, entered,
                   final_confirm, printed>>

\* main, lines 407-413: the first try's only handler prints the error and
\* troubleshooting hints; there is no exit, so control reaches the second try.
FirstTryExcept(e) ==
    IF Catches("Exception", e.cls)
    THEN [caught |-> TRUE, line |-> "Error: " \o e.msg]
    ELSE [caught |-> FALSE, line |-> ""]

WebMainCatches ==
    /\ rpc = "main_raising"
    /\ LET h == FirstTryExcept(raising)
       IN  IF h.caught
           THEN printed' = Append(printed, h.line) /\ rpc' = "second_try"
           ELSE UNCHANGED printed /\ rpc' = "uncaught"
    /\ UNCHANGED <<variant, healthVars, discVars, selVars, rindex, requests, reports,
                   exit_status, services, entered, final_confirm, raising>>

\* main, lines 415-426: AzureServiceHealthChecker(subscription_id) raises
\* NameError, which the second try's handlers treat like main of
\* clpe_ncrpes_monitor.py treats its faults.
SecondTryFault == Exc("NameError", "name 'AzureServiceHealthChecker' is not defined")

WebSecondTry ==
    /\ rpc = "second_try"
    /\ LET h == MainExcept(SecondTryFault)
       IN  /\ printed' = Append(printed, h.line)
           /\ exit_status' = h.status
           /\ rpc' = IF h.status = 0 THEN "done" ELSE "crashed"
    /\ UNCHANGED <<variant, healthVars, discVars, selVars, rindex, requests, reports,
                   services, entered, final_confirm, raising>>

InitHealth ==
    /\ variant = "web"
    /\ HealthIdle
    /\ DiscoveryIdle
    /\ SelectionIdle
    /\ rpc \in {"main_confirm", "rhc_discover"}
    /\ rindex = 0
    /\ requests = <<>>
    /\ reports = <<>>
    /\ exit_status = Running
    /\ services = <<>>
    /\ entered = <<>>
    /\ final_confirm = NoInput
    /\ raising = NoFault
    /\ printed = <<>>

NextHealth ==
    \/ get_windows_vms \/ RhcSelectCall \/ RhcAfterSelect \/ ServiceEntry
    \/ ProceedConfirm \/ RhcCheck
    \/ WebMainConfirm \/ WebMainDiscover \/ select_clpe_web_vm \/ WebMainAfterSelect
    \/ get_services_to_check \/ WebMainAfterServices \/ WebMainCheck
    \/ WebMainCatches \/ WebSecondTry
    \/ SelectEnter \/ IndexInput \/ ConfirmInput \/ InterruptInput

SpecHealth == InitHealth /\ [][NextHealth]_vars

(***************************************************************************)
(* Every run of either script: main of clpe_ncrpes_monitor.py, main of     *)
(* azure_service_health_checker.py, and run_health_check.                  *)
(***************************************************************************)
InitPrograms == InitRun \/ InitHealth

NextPrograms ==
    \/ RunDiscover \/ RunAfterSelect \/ SecurityConfirm \/ SecurityInterrupt
    \/ MonitorVm \/ MonitoringDone \/ MainCatches
    \/ get_windows_vms \/ RhcSelectCall \/ RhcAfterSelect \/ ServiceEntry
    \/ ProceedConfirm \/ RhcCheck
    \/ WebMainConfirm \/ WebMainDiscover \/ select_clpe_web_vm \/ WebMainAfterSelect
    \/ get_services_to_check \/ WebMainAfterServices \/ WebMainCheck
    \/ WebMainCatches \/ WebSecondTry
    \/ SelectEnter \/ IndexInput \/ ConfirmInput \/ InterruptInput

SpecPrograms == InitPrograms /\ [][NextPrograms]_vars


(***************************************************************************)
(* Claims about the selection prompt (checked under SpecSelect).           *)
(***************************************************************************)
Typed(entry) == entry \notin {NoInput, Interrupt}

IsCancelToken(raw) == Lower(Strip(raw)) \in {"q", "quit", "exit"}

\* 'all' is a token of select_clpe_vm only.
IsAllToken(v, raw) == v = "ncrpes" /\ Lower(Strip(raw)) = "all"

IsNumeric(raw) == py_int(Strip(raw)).kind = "return"

IndexOf(raw) == py_int(Strip(raw)).value

\* An entry the prompt has to reject: not a token, and either not a number or
\* a number outside 1..n.
MustReject(v, n, raw) ==
    /\ ~IsCancelToken(raw)
    /\ ~IsAllToken(v, raw)
    /\ ~IsNumeric(raw) \/ IndexOf(raw) <= 0 \/ IndexOf(raw) > n

\* C6: an entry at the index prompt that is non-numeric (and no cancel or 'all'
\* token), or an index <= 0 or > N, never ends the prompt: the index prompt is
\* shown again; and a single VM returned for entry k is the k-th VM of the list.
C6_InvalidEntryReprompts ==
    /\ spc # "raised"
    /\ (Typed(choice) /\ MustReject(variant, Len(svms), choice))
            => (spc = "index_prompt" /\ selected = NotReturned /\ reprompted)
    /\ (spc = "returned" /\ selected.kind = "vm")
            => /\ Typed(choice) /\ IsNumeric(choice)
               /\ IndexOf(choice) \in 1..Len(svms)
               /\ selected.vm = svms[IndexOf(choice)]

\* C6 witness: an entry was rejected and the prompt shown again, then entry
\* "2" returned the second of two VMs.
C6_Witness ==
    /\ spc = "returned"
    /\ reprompted
    /\ Len(svms) = 2
    /\ choice = "2"
    /\ selected = SelVm(svms[2])

\* C7: a VM whose power state is not 'running' is returned only after the
\* operator was asked 'Continue anyway?' and answered 'y' (the answer is
\* compared trimmed and lower-cased); any other answer returns None.
C7_NotRunningNeedsConfirmation ==
    /\ (spc = "returned" /\ selected.kind = "vm" /\ selected.vm.power_state # "running")
            => (Typed(answer) /\ Lower(Strip(answer)) = "y")
    /\ (spc = "returned" /\ Typed(answer) /\ Lower(Strip(answer)) # "y")
            => selected = SelNone
    /\ (Typed(choice) /\ IsNumeric(choice) /\ IndexOf(choice) \in 1..Len(svms)
            /\ svms[IndexOf(choice)].power_state # "running" /\ answer = NoInput)
            => (spc = "confirm_prompt" /\ selected = SelPending(svms[IndexOf(choice)]))

\* C7 witness: a deallocated VM was chosen, the operator answered 'y', and the
\* VM was returned.
C7_Witness ==
    /\ spc = "returned"
    /\ selected.kind = "vm"
    /\ selected.vm.power_state = "deallocated"
    /\ answer = "y"

\* C8: an operator interrupt at the index prompt or at the 'Continue anyway?'
\* prompt ends the prompt with the result None; no fault leaves the prompt.
C8_InterruptReturnsNone ==
    /\ spc # "raised"
    /\ (choice = Interrupt \/ answer = Interrupt) => (spc = "returned" /\ selected = SelNone)

\* C8 witness: the interrupt arrived at the 'Continue anyway?' prompt.
C8_Witness ==
    /\ answer = Interrupt
    /\ Typed(choice)
    /\ spc = "returned"
    /\ selected = SelNone

(***************************************************************************)
(* Claims about run_clpe_monitoring (checked under SpecRun).               *)
(***************************************************************************)
AllFlowEnded ==
    /\ rpc \in {"done", "crashed"}
    /\ selected.kind = "all"
    /\ Len(requests) > 0

\* C3: in the "all VMs" flow over N VMs, however the check of a VM ends
\* (transport fault, empty response, unparseable output, any parsed output),
\* the VMs after it are still checked and reported: when the run ends, every
\* one of the N VMs has been requested and reported.
C3_AllLoopNeverAborts ==
    AllFlowEnded =>
        /\ Len(requests) = Len(selected.vms)
        /\ Len(reports) = Len(selected.vms)

\* The requests issued so far are those of the first VMs of the list, one
\* each, in list order, and every request has its report.
RequestsFollowList ==
    /\ Len(requests) <= Len(selected.vms)
    /\ \A k \in 1..Len(requests) : requests[k] = Request(selected.vms[k])
    /\ Len(reports) = Len(requests)

\* C12: when 'all' is chosen, run_clpe_monitoring issues exactly one remote
\* execution request per VM of the selected list, in list order, each request
\* reported before the next one is issued; no VM is requested twice and, when
\* the run has ended, none was skipped.
C12_OneRequestPerVmInOrder ==
    (selected.kind = "all" /\ rpc \in {"monitoring", "raising", "done", "crashed"}) =>
        /\ RequestsFollowList
        /\ AllFlowEnded => Len(requests) = Len(selected.vms)

\* The VM of the list handed to the prompt that a request names.
RequestedVm(req) == CHOOSE vm \in {svms[i] : i \in 1..Len(svms)} : vm.name = req.vm_name

\* The operator answered 'y' at the 'Continue anyway?' prompt shown for vm.
IndividuallyConfirmed(vm) ==
    /\ selected = SelVm(vm)
    /\ Typed(answer)
    /\ Lower(Strip(answer)) = "y"

\* C16: every VM run_clpe_monitoring has submitted a remote command to was
\* 'running' at discovery or was individually confirmed at the 'Continue
\* anyway?' prompt, for a single selection and for 'all'.
C16_OnlyRunningOrConfirmedVms ==
    \A k \in 1..Len(requests) :
        \/ RequestedVm(requests[k]).power_state = "running"
        \/ IndividuallyConfirmed(RequestedVm(requests[k]))

\* The single selection alone: the part of C16 the code keeps.
SingleSelectionRunningOrConfirmed ==
    selected.kind = "vm" => C16_OnlyRunningOrConfirmedVms

(***************************************************************************)
(* Claims about display_ncrpes_results (checked under SpecDisplay).        *)
(***************************************************************************)
\* The class of a figure v (in hundredths) for thresholds lo and hi (whole
\* percentages): nominal below lo, elevated from lo to below hi, critical
\* from hi on.
Nominal(v, lo, hi) == 100 * lo > v
Elevated(v, lo, hi) == v >= 100 * lo /\ 100 * hi > v
Critical(v, lo, hi) == v >= 100 * hi

MarkOf(v, lo, hi) ==
    CASE Nominal(v, lo, hi) /\ ~Elevated(v, lo, hi) /\ ~Critical(v, lo, hi) -> "green"
      [] Elevated(v, lo, hi) /\ ~Nominal(v, lo, hi) /\ ~Critical(v, lo, hi) -> "yellow"
      [] Critical(v, lo, hi) /\ ~Nominal(v, lo, hi) /\ ~Elevated(v, lo, hi) -> "red"
      [] OTHER -> "no single class"

DisplayedUsage(key) ==
    LET si == result.value.data.items["SystemInfo"].items
    IN  IF key \in DOMAIN si THEN si[key] ELSE 0

\* C15: the report marks CPU usage nominal when < 70, elevated when >= 70 and
\* < 90, critical when >= 90, and memory usage nominal when < 80, elevated when
\* >= 80 and < 95, critical when >= 95; every figure gets exactly one mark, the
\* figures 70, 90, 80 and 95 the higher one.
C15_UsageThresholds ==
    (rpc = "displayed"
        /\ "Error" \notin DOMAIN result.value.data.items["SystemInfo"].items) =>
        reports = <<"report printed: CPU " \o MarkOf(DisplayedUsage("CPUUsage"), 70, 90)
                    \o ", Memory " \o MarkOf(DisplayedUsage("MemoryUsagePercent"), 80, 95)>>

\* C15 witness: CPU usage 70.00 was marked elevated and memory usage 95.00
\* critical.
C15_Witness ==
    /\ rpc = "displayed"
    /\ "Error" \notin DOMAIN result.value.data.items["SystemInfo"].items
    /\ DisplayedUsage("CPUUsage") = 7000
    /\ DisplayedUsage("MemoryUsagePercent") = 9500
    /\ reports = <<"report printed: CPU yellow, Memory red">>

(***************************************************************************)
(* Claims about whole runs (checked under SpecPrograms).                   *)
(***************************************************************************)
MainEnded == rpc \in {"done", "crashed", "uncaught"}

\* A fault other than an operator interrupt left discovery, selection, the
\* health-check call or reporting.
FaultEscaped ==
    /\ raising # NoFault
    /\ raising.cls # "KeyboardInterrupt"
    /\ \/ dpc = "raised"
       \/ spc = "raised"
       \/ result.kind = "raise"
       \/ (reports # <<>> /\ reports[Len(reports)] = raising.cls)

ReportedByMain(e) ==
    \E k \in 1..Len(printed) :
        printed[k] \in {"Unexpected error: " \o e.msg, "Error: " \o e.msg}

\* C13: once main has ended, a fault other than an operator interrupt that
\* escaped discovery, selection, the health-check call or reporting has been
\* caught in main and reported, and the exit status is not zero.
C13_UnexpectedFaultExitsNonZero ==
    (MainEnded /\ FaultEscaped) =>
        /\ rpc # "uncaught"
        /\ ReportedByMain(raising)
        /\ exit_status \notin {Running, 0}

\* C13 witness: in the web script a connection fault ended the listing of
\* discovery; main printed it and the process ended with status 1.
C13_Witness ==
    /\ variant = "web"
    /\ MainEnded
    /\ dpc = "raised"
    /\ raising = Exc("ConnectionError", "reset")
    /\ printed[1] = "Error: reset"
    /\ exit_status = 1

(***************************************************************************)
(* Claims about the runs of the service health checker (SpecHealth).       *)
(***************************************************************************)
\* The names typed before the first blank line, stripped, in entry order.
RECURSIVE NamesEntered(_)
NamesEntered(entries) ==
    IF entries = <<>> THEN <<>>
    ELSE IF Strip(Head(entries)) = "" THEN <<>>
    ELSE <<Strip(Head(entries))>> \o NamesEntered(Tail(entries))

\* C14: every request of the service health checker carries a non-empty list
\* of service names, which is the list of the names entered, in entry order,
\* duplicates kept; when a blank line is entered before any name the run ends
\* and no request is made.
C14_NonEmptyServiceNames ==
    /\ \A k \in 1..Len(requests) :
            /\ requests[k].service_names # <<>>
            /\ requests[k].service_names = NamesEntered(entered)
    /\ (entered # <<>> /\ NamesEntered(entered) = <<>>) =>
            (requests = <<>> /\ rpc \in {"returned", "done", "main_services"})

\* C14 witness: run_health_check submitted the same name entered twice.
C14_Witness ==
    /\ rpc = "returned"
    /\ entered = <<"W3SVC", "W3SVC", "">>
    /\ Len(requests) = 1
    /\ requests[1].service_names = <<"W3SVC", "W3SVC">>
    /\ requests[1].services_list = "W3SVC', 'W3SVC"

RunEnded == rpc \in {"done", "crashed", "uncaught", "returned", "rhc_raised"}

\* C17: no remote command is submitted before the operator has answered 'y'
\* at the final confirmation prompt of the run; any other answer, an empty
\* selection or an empty VM list ends the run with no remote request.
C17_NoRequestBeforeFinalYes ==
    /\ requests # <<>> => final_confirm = "y"
    /\ (Typed(final_confirm) /\ final_confirm # "y") => (RunEnded /\ requests = <<>>)
    /\ (spc = "returned" /\ selected = SelNone) => requests = <<>>
    /\ (dpc = "returned" /\ discovered.list = <<>>) => requests = <<>>
    /\ (RunEnded /\ final_confirm # "y") => requests = <<>>

\* C17 witness: run_health_check submitted its request after 'y' was answered
\* to 'Proceed with health check?'.
C17_Witness ==
    /\ variant = "web"
    /\ rpc = "returned"
    /\ final_confirm = "y"
    /\ Len(requests) = 1
    /\ entered # <<>>

(***************************************************************************)
(* Claims about the health-check call (checked under SpecCheck).           *)
(***************************************************************************)
HasMessage(resp) ==
    resp.kind = "return" /\ ~resp.value.none /\ Len(resp.value.list) > 0

FirstMessage(resp) == resp.value.list[1].message

EmptyValue(resp) ==
    resp.kind = "return" /\ (resp.value.none \/ Len(resp.value.list) = 0)

ValidJson(m) == m # None /\ json_loads(m).kind = "return"

\* The four terminal outcomes of the state machine, read off a returned result.
IsParsedSuccess(r) == r.success
IsParseFailure(r) == ~r.success /\ r.error = "Failed to parse service information"
IsEmptyResponse(r) == ~r.success /\ r.error = "No output received from VM"
IsTransportFailure(r) ==
    /\ ~r.success
    /\ StartsWith(r.error, "Azure API error: ") \/ StartsWith(r.error, "Unexpected error: ")
    /\ r.raw_output = ""

OutcomesOf(r) ==
    {c \in {"ParsedSuccess", "ParseFailure", "EmptyResponse", "TransportFailure"} :
        CASE c = "ParsedSuccess" -> IsParsedSuccess(r)
          [] c = "ParseFailure" -> IsParseFailure(r)
          [] c = "EmptyResponse" -> IsEmptyResponse(r)
          [] OTHER -> IsTransportFailure(r)}

HealthCallEnded == hpc \in {"returned", "raised"}

\* C1: when the first output message of the remote response is the text "[]",
\* the health-check call returns a failure (success = False), never a success
\* carrying zero services.
C1_EmptyArrayIsFailure ==
    (hpc = "returned" /\ HasMessage(response) /\ FirstMessage(response) = "[]")
        => ~result.value.success

\* C4: every health-check call ends by returning (never by raising) a result
\* that is in exactly one of ParsedSuccess, ParseFailure, EmptyResponse and
\* TransportFailure; EmptyResponse is produced exactly when the response list
\* is empty or absent, and every fault of the remote primitive becomes a
\* TransportFailure with empty raw output.
C4_FourTerminalOutcomes ==
    HealthCallEnded =>
        /\ hpc = "returned"
        /\ result.kind = "return"
        /\ Cardinality(OutcomesOf(result.value)) = 1
        /\ IsEmptyResponse(result.value) <=> EmptyValue(response)
        /\ response.kind = "raise" => IsTransportFailure(result.value)

\* C4 witness: a fault that is not an AzureError was raised by the remote
\* primitive and the call has returned.
C4_Witness ==
    /\ hpc = "returned"
    /\ response.kind = "raise"
    /\ response.exc.cls = "ConnectionError"
    /\ result.value.error = "Unexpected error: reset"

\* C5: when the first output message is not syntactically valid JSON, the call
\* returns a failure with reason 'Failed to parse service information' whose
\* raw_output is the received message, unchanged.
C5_ParseFailureKeepsRawText ==
    (HealthCallEnded /\ HasMessage(response) /\ FirstMessage(response) # None
        /\ ~ValidJson(FirstMessage(response)))
        => /\ hpc = "returned"
           /\ ~result.value.success
           /\ result.value.error = "Failed to parse service information"
           /\ result.value.raw_output = FirstMessage(response)

\* C5 witness: the malformed message "[0," was received and the call returned.
C5_Witness ==
    /\ hpc = "returned"
    /\ HasMessage(response)
    /\ FirstMessage(response) = "[0,"
    /\ IsParseFailure(result.value)

=============================================================================
